---- MODULE Spec2Model ----
(***************************************************************************)
(* Import-Export Tracker (import_export_app.py): the purchases table, the  *)
(* purchase-payments ledger, the balance reconciliation recalc_balances    *)
(* and the form handlers that write the two tables.                        *)
(*                                                                         *)
(* Units.  Money kept in a table is an integer number of cents (every      *)
(* amount the program writes went through round(x, 2)).  Values typed into *)
(* a number_input are finer: a quantity is in thousandths (format %.3f),   *)
(* a payment amount in tenths of a cent, so that round(x, 2) is a real     *)
(* conversion.  A date is a day ordinal; NoDate is the empty cell.         *)
(* A table is the sequence of rows of its CSV file, in file order; the     *)
(* text cells InvoiceNo and BLNo hold what the file holds, and load_df and *)
(* save_df convert them as pandas does.  classify_urgency gives the        *)
(* payment-urgency flag of a reconciled purchase.                          *)
(***************************************************************************)
EXTENDS Integers, Sequences, FiniteSets, TLC

(***************************************************************************)
(* Bounds of the model.                                                    *)
(***************************************************************************)
MaxPurchases == 2
MaxPayments == 3
MaxShipmentOps == 1
MaxArgPurchases == 2
MaxArgPayments == 2

(***************************************************************************)
(* Sentinels for cells that hold no value.                                 *)
(***************************************************************************)
NaN == -1          \* a Total cell that is absent or not numeric
NoDate == 0        \* NextPaymentDue "" (read back from the CSV as NaN)
NaNText == "<float nan>"   \* a text cell that read_csv found missing

(***************************************************************************)
(* Values the user can give to the forms.                                  *)
(***************************************************************************)
QtyChoices == {0, 650}                 \* thousandths: 0.000, 0.650
RateChoices == {5}                     \* cents: 0.05
PaymentOptions == {"10% advance", "20% advance", "30% advance", "100% advance"}
AmountChoices == {0, 16}               \* tenths of a cent: 0.000, 0.016
NoteChoices == {""}
DateChoices == {20, 50}
FirstDate == {20}
StatusOptions == {"Yet to Dispatch", "Dispatched", "Delayed", "Delivered"}
InvoiceChoices == {"", "INV1"}
BLChoices == {"", "BL1"}

VARIABLES
    purchases,      \* purchases.csv
    payments,       \* purchase_payments.csv
    msg,            \* the st.error / st.success message shown last
    shipmentOps,    \* number of shipment buttons handled so far
    purchases_df,   \* recalc_balances: the caller's first argument
    payments_df,    \* recalc_balances: the caller's second argument
    ret,            \* recalc_balances: what the first call returned
    ret2,           \* recalc_balances: what a call on ret returned
    calls           \* recalc_balances: number of calls made

vars == <<purchases, payments, msg, shipmentOps,
          purchases_df, payments_df, ret, ret2, calls>>
appVars == <<purchases, payments, msg, shipmentOps>>
fnVars == <<purchases_df, payments_df, ret, ret2, calls>>

Max(a, b) == IF a >= b THEN a ELSE b

(***************************************************************************)
(* Text cells through the CSV file.  pd.read_csv turns an empty cell, and  *)
(* a cell holding one of its default missing-value spellings, into NaN;    *)
(* to_csv writes NaN as an empty cell and a string as itself.  A           *)
(* text_input shows str(value), which for NaN is "nan".                    *)
(***************************************************************************)
NaValues == {"", "#N/A", "#N/A N/A", "#NA", "-1.#IND", "-1.#QNAN", "-NaN",
             "-nan", "1.#IND", "1.#QNAN", "<NA>", "N/A", "NA", "NULL", "NaN",
             "None", "n/a", "nan", "null"}

read_csv_text(cell) == IF cell \in NaValues THEN NaNText ELSE cell

to_csv_text(value) == IF value = NaNText THEN "" ELSE value

text_input_value(value) == IF value = NaNText THEN "nan" ELSE value

\* load_df(PURCHASES_FILE, PURCHASE_COLS), on the text cells InvoiceNo, BLNo
load_df(file) ==
    [i \in 1..Len(file) |->
        [file[i] EXCEPT !.InvoiceNo = read_csv_text(@),
                        !.BLNo = read_csv_text(@)]]

\* save_df(df, PURCHASES_FILE), on the text cells InvoiceNo, BLNo
save_df(df) ==
    [i \in 1..Len(df) |->
        [df[i] EXCEPT !.InvoiceNo = to_csv_text(@),
                      !.BLNo = to_csv_text(@)]]

(***************************************************************************)
(* round(n/d, 0) for n >= 0, d > 0: the integers nearest to n/d.  One      *)
(* value, except on an exact tie, where the binary representation of the   *)
(* float decides between the two neighbours.                               *)
(***************************************************************************)
RoundSet(n, d) ==
    {q \in {n \div d, (n \div d) + 1} :
        2 * (IF n >= q * d THEN n - q * d ELSE q * d - n) <= d}

\* round(x, 2) of a value x already held in cents
Round2(x) == CHOOSE q \in RoundSet(x, 1) : TRUE

(***************************************************************************)
(* next_slno, next_payment_id                                              *)
(***************************************************************************)
RECURSIVE ColMax(_, _)
ColMax(df, col) ==
    IF Len(df) = 1 THEN df[1][col]
    ELSE Max(df[1][col], ColMax(Tail(df), col))

\* next_slno returning the maximum itself
next_slno_no_increment(df) == IF df = <<>> THEN 1 ELSE ColMax(df, "SlNo")

next_slno(df) == IF df = <<>> THEN 1 ELSE ColMax(df, "SlNo") + 1

\* next_payment_id returning the maximum itself
next_payment_id_no_increment(df) ==
    IF df = <<>> THEN 1 ELSE ColMax(df, "PaymentID")

next_payment_id(df) == IF df = <<>> THEN 1 ELSE ColMax(df, "PaymentID") + 1

(***************************************************************************)
(* recalc_balances                                                         *)
(***************************************************************************)
\* pd.to_numeric(..., errors="coerce").fillna(0.0)
ToNumeric(t) == IF t = NaN THEN 0 ELSE t

\* payments_df.groupby("PurchaseSlNo")["Amount"].sum(), then .get(sl, 0.0)
RECURSIVE GroupSum(_, _)
GroupSum(pay, sl) ==
    IF pay = <<>> THEN 0
    ELSE (IF pay[1].PurchaseSlNo = sl THEN pay[1].Amount ELSE 0)
         + GroupSum(Tail(pay), sl)

\* recalc_balances summing the whole ledger for every purchase (no groupby)
RECURSIVE LedgerSum(_)
LedgerSum(pay) ==
    IF pay = <<>> THEN 0 ELSE pay[1].Amount + LedgerSum(Tail(pay))

recalc_balances_no_groupby(p_df, pay_df) ==
    LET p == [i \in 1..Len(p_df) |->
                 [p_df[i] EXCEPT !.Total = ToNumeric(@),
                                 !.Paid = 0,
                                 !.Due = ToNumeric(p_df[i].Total)]]
    IN IF pay_df = <<>> THEN p
       ELSE [i \in 1..Len(p) |->
                LET paid == LedgerSum(pay_df)
                IN [p[i] EXCEPT !.Paid = Round2(paid),
                                !.Due = Round2(Max(p[i].Total - paid, 0))]]

\* recalc_balances adding the ledger to the Paid already in the row
recalc_balances_accumulating(p_df, pay_df) ==
    LET p == [i \in 1..Len(p_df) |->
                 [p_df[i] EXCEPT !.Total = ToNumeric(@),
                                 !.Due = ToNumeric(p_df[i].Total)]]
    IN IF pay_df = <<>> THEN p
       ELSE [i \in 1..Len(p) |->
                LET paid == p[i].Paid + GroupSum(pay_df, p[i].SlNo)
                IN [p[i] EXCEPT !.Paid = Round2(paid),
                                !.Due = Round2(Max(p[i].Total - paid, 0))]]

\* recalc_balances with the sign of paid slipped in Due
recalc_balances_sign_slip(p_df, pay_df) ==
    LET p == [i \in 1..Len(p_df) |->
                 [p_df[i] EXCEPT !.Total = ToNumeric(@),
                                 !.Paid = 0,
                                 !.Due = ToNumeric(p_df[i].Total)]]
    IN IF pay_df = <<>> THEN p
       ELSE [i \in 1..Len(p) |->
                LET paid == GroupSum(pay_df, p[i].SlNo)
                IN [p[i] EXCEPT !.Paid = Round2(paid),
                                !.Due = Round2(Max(p[i].Total + paid, 0))]]

\* recalc_balances setting Paid from the ledger and leaving Due = Total
recalc_balances_stale_due(p_df, pay_df) ==
    LET p == [i \in 1..Len(p_df) |->
                 [p_df[i] EXCEPT !.Total = ToNumeric(@), !.Paid = 0,
                                 !.Due = ToNumeric(p_df[i].Total)]]
    IN IF pay_df = <<>> THEN p
       ELSE [i \in 1..Len(p) |->
                [p[i] EXCEPT !.Paid = Round2(GroupSum(pay_df, p[i].SlNo))]]

recalc_balances(p_df, pay_df) ==
    LET p == [i \in 1..Len(p_df) |->
                 [p_df[i] EXCEPT !.Total = ToNumeric(@),
                                 !.Paid = 0,
                                 !.Due = ToNumeric(p_df[i].Total)]]
    IN IF pay_df = <<>> THEN p
       ELSE [i \in 1..Len(p) |->
                LET paid == GroupSum(pay_df, p[i].SlNo)
                IN [p[i] EXCEPT !.Paid = Round2(paid),
                                !.Due = Round2(Max(p[i].Total - paid, 0))]]

\* recalc_balances working on purchases_df itself (no .copy())
ArgAfterCallNoCopy(p_df, pay_df) == recalc_balances(p_df, pay_df)

\* purchases_df.copy(): the caller's table after the call
ArgAfterCall(p_df, pay_df) == p_df

(***************************************************************************)
(* classify_urgency(purchase): the payment-urgency flag of a reconciled    *)
(* purchase on the day today.                                              *)
(***************************************************************************)
UrgencyFlags == {"Paid", "Due", "DueSoon", "Overdue"}
UrgencyWindow == 7                    \* days
TodayChoices == {12, 13, 20, 21, 50}  \* day ordinals, as NextPaymentDue

\* the 7-day window taken without its last day
classify_urgency_exclusive_window(purchase, today) ==
    IF purchase.Due <= 0 THEN "Paid"
    ELSE IF purchase.NextPaymentDue = NoDate THEN "Due"
    ELSE IF purchase.NextPaymentDue < today THEN "Overdue"
    ELSE IF purchase.NextPaymentDue < today + UrgencyWindow THEN "DueSoon"
    ELSE "Due"

classify_urgency(purchase, today) ==
    IF purchase.Due <= 0 THEN "Paid"
    ELSE IF purchase.NextPaymentDue = NoDate THEN "Due"
    ELSE IF purchase.NextPaymentDue < today THEN "Overdue"
    ELSE IF purchase.NextPaymentDue <= today + UrgencyWindow THEN "DueSoon"
    ELSE "Due"

(***************************************************************************)
(* Rows written by the forms.  The columns kept are those the balance,     *)
(* payment and shipment logic reads or writes; the free-text columns       *)
(* (Date, Supplier, Material, UOM, ports, ETA, ShippingLine,               *)
(* ProformaInvoice) and Qty, UnitRate, PaymentOption are written once and  *)
(* copied through by every handler, and are left out.                      *)
(***************************************************************************)
Percent(payment_option) ==
    CASE payment_option = "10% advance" -> 10
      [] payment_option = "20% advance" -> 20
      [] payment_option = "30% advance" -> 30
      [] payment_option = "100% advance" -> 100

NewPurchaseRow(sl, total) ==
    [SlNo |-> sl, Total |-> total,
     ShipmentStatus |-> "Yet to Dispatch", InvoiceNo |-> "", BLNo |-> "",
     NextPaymentDue |-> NoDate, Paid |-> 0, Due |-> total]

\* the advance row written with the SlNo after the one just saved
AdvanceRowNextSlNo(pid, sl, advance_amount) ==
    [PaymentID |-> pid, PurchaseSlNo |-> sl + 1, Amount |-> advance_amount,
     Note |-> "Initial advance", NextPaymentDue |-> NoDate]

AdvanceRow(pid, sl, advance_amount) ==
    [PaymentID |-> pid, PurchaseSlNo |-> sl, Amount |-> advance_amount,
     Note |-> "Initial advance", NextPaymentDue |-> NoDate]

PaymentRow(pid, chosen_sl, amount2, note, next_due) ==
    [PaymentID |-> pid, PurchaseSlNo |-> chosen_sl, Amount |-> amount2,
     Note |-> note, NextPaymentDue |-> next_due]

\* purchases.index[purchases["SlNo"] == chosen_sl][0]
RowIndex(df, chosen_sl) ==
    CHOOSE i \in 1..Len(df) :
        /\ df[i].SlNo = chosen_sl
        /\ \A j \in 1..(i - 1) : df[j].SlNo # chosen_sl

\* sl_choices = list(purchases["SlNo"].astype(int))
SlChoices(df) == {df[i].SlNo : i \in 1..Len(df)}

Init ==
    /\ purchases = <<>>
    /\ payments = <<>>
    /\ shipmentOps = 0
    /\ msg = "none"
    /\ purchases_df = <<>>
    /\ payments_df = <<>>
    /\ ret = <<>>
    /\ ret2 = <<>>
    /\ calls = 0

\* Add Purchase writing the advance row whenever advance_amount >= 0
AddPurchaseAlwaysAdvance(qty, unit_rate, payment_option) ==
    /\ Len(purchases) < MaxPurchases
    /\ Len(payments) < MaxPayments
    /\ \E total \in RoundSet(qty * unit_rate, 1000) :
       \E advance_amount \in RoundSet(total * Percent(payment_option), 100) :
          LET sl == next_slno(purchases)
              saved == save_df(Append(load_df(purchases),
                                     NewPurchaseRow(sl, total)))
              pid == next_payment_id(payments)
          IN /\ purchases' = saved
             /\ payments' = IF advance_amount >= 0
                            THEN Append(payments, AdvanceRow(pid, sl, advance_amount))
                            ELSE payments
             /\ msg' = "Purchase created"
    /\ UNCHANGED shipmentOps
    /\ UNCHANGED fnVars

(***************************************************************************)
(* Add Purchase: "Save Purchase" submitted.                                *)
(***************************************************************************)
AddPurchase(qty, unit_rate, payment_option) ==
    /\ Len(purchases) < MaxPurchases
    /\ Len(payments) < MaxPayments
    /\ \E total \in RoundSet(qty * unit_rate, 1000) :
       \E advance_amount \in RoundSet(total * Percent(payment_option), 100) :
          LET sl == next_slno(purchases)
              saved == save_df(Append(load_df(purchases),
                                     NewPurchaseRow(sl, total)))
              pid == next_payment_id(payments)
          IN /\ purchases' = saved
             /\ payments' = IF advance_amount > 0
                            THEN Append(payments, AdvanceRow(pid, sl, advance_amount))
                            ELSE payments
             /\ msg' = "Purchase created"
    /\ UNCHANGED shipmentOps
    /\ UNCHANGED fnVars

(***************************************************************************)
(* Purchase Update, Shipment Update tab.  The page reloads both tables and *)
(* reconciles before any button is handled; what a button saves is that    *)
(* reconciled table with the edited cells.  In the dispatch form the user  *)
(* types an Invoice No and a BL No or leaves what the fields show.         *)
(***************************************************************************)
SaveDispatch(chosen_sl, inv, bl) ==
    LET p == recalc_balances(load_df(purchases), payments)
        idx == RowIndex(p, chosen_sl)
    IN /\ chosen_sl \in SlChoices(p)
       /\ p[idx].ShipmentStatus # "Dispatched"
       /\ shipmentOps < MaxShipmentOps
       /\ shipmentOps' = shipmentOps + 1
       /\ IF inv = "" \/ bl = ""
          THEN /\ msg' = "Invoice & BL required."
               /\ UNCHANGED <<purchases, payments>>
          ELSE /\ purchases' = save_df([p EXCEPT
                                  ![idx].ShipmentStatus = "Dispatched",
                                  ![idx].InvoiceNo = inv,
                                  ![idx].BLNo = bl])
               /\ msg' = "Shipment marked as Dispatched."
               /\ UNCHANGED payments
       /\ UNCHANGED fnVars

MarkDelivered(chosen_sl) ==
    LET p == recalc_balances(load_df(purchases), payments)
        idx == RowIndex(p, chosen_sl)
    IN /\ chosen_sl \in SlChoices(p)
       /\ p[idx].ShipmentStatus # "Delivered"
       /\ shipmentOps < MaxShipmentOps
       /\ shipmentOps' = shipmentOps + 1
       /\ purchases' = save_df([p EXCEPT ![idx].ShipmentStatus = "Delivered"])
       /\ msg' = "Shipment marked Delivered."
       /\ UNCHANGED payments
       /\ UNCHANGED fnVars

SaveStatus(chosen_sl, new_status) ==
    LET p == recalc_balances(load_df(purchases), payments)
        idx == RowIndex(p, chosen_sl)
        current_status == p[idx].ShipmentStatus
    IN /\ chosen_sl \in SlChoices(p)
       /\ ~(new_status = "Dispatched" /\ current_status # "Dispatched")
       /\ ~(new_status = "Delivered" /\ current_status # "Delivered")
       /\ new_status # current_status
       /\ shipmentOps < MaxShipmentOps
       /\ shipmentOps' = shipmentOps + 1
       /\ purchases' = save_df([p EXCEPT ![idx].ShipmentStatus = new_status])
       /\ msg' = "Status updated."
       /\ UNCHANGED payments
       /\ UNCHANGED fnVars

\* Record Payment without the "Enter valid amount." check
RecordPaymentAcceptsZero(chosen_sl, amount, note, next_due) ==
    LET p == recalc_balances(load_df(purchases), payments)
        idx == RowIndex(p, chosen_sl)
    IN /\ chosen_sl \in SlChoices(p)
       /\ p[idx].Due > 0
       /\ 0 <= amount /\ amount <= 10 * p[idx].Due
       /\ \E amount2 \in RoundSet(amount, 10) :
             /\ Len(payments) < MaxPayments
             /\ payments' = Append(payments,
                   PaymentRow(next_payment_id(payments), chosen_sl,
                              amount2, note, next_due))
             /\ purchases' = save_df([p EXCEPT ![idx].NextPaymentDue = next_due])
             /\ msg' = "Payment saved."
       /\ UNCHANGED shipmentOps
       /\ UNCHANGED fnVars

\* Record Payment assigning the NextPaymentDue column instead of one cell
RecordPaymentWholeColumn(chosen_sl, amount, note, next_due) ==
    LET p == recalc_balances(load_df(purchases), payments)
        idx == RowIndex(p, chosen_sl)
    IN /\ chosen_sl \in SlChoices(p)
       /\ p[idx].Due > 0
       /\ 0 <= amount /\ amount <= 10 * p[idx].Due
       /\ IF amount <= 0
          THEN /\ msg' = "Enter valid amount."
               /\ UNCHANGED <<purchases, payments>>
          ELSE \E amount2 \in RoundSet(amount, 10) :
                  /\ Len(payments) < MaxPayments
                  /\ payments' = Append(payments,
                        PaymentRow(next_payment_id(payments), chosen_sl,
                                   amount2, note, next_due))
                  /\ purchases' = save_df([i \in 1..Len(p) |->
                                      [p[i] EXCEPT !.NextPaymentDue = next_due]])
                  /\ msg' = "Payment saved."
       /\ UNCHANGED shipmentOps
       /\ UNCHANGED fnVars

(***************************************************************************)
(* Purchase Update, Payment Update tab: "Record Payment" submitted.  The   *)
(* form exists only while the reconciled Due is positive, and its Amount   *)
(* field is a number_input with min_value 0 and max_value Due.  amount is  *)
(* in tenths of a cent.                                                    *)
(***************************************************************************)
RecordPayment(chosen_sl, amount, note, next_due) ==
    LET p == recalc_balances(load_df(purchases), payments)
        idx == RowIndex(p, chosen_sl)
    IN /\ chosen_sl \in SlChoices(p)
       /\ p[idx].Due > 0
       /\ 0 <= amount /\ amount <= 10 * p[idx].Due
       /\ IF amount <= 0
          THEN /\ msg' = "Enter valid amount."
               /\ UNCHANGED <<purchases, payments>>
          ELSE \E amount2 \in RoundSet(amount, 10) :
                  /\ Len(payments) < MaxPayments
                  /\ payments' = Append(payments,
                        PaymentRow(next_payment_id(payments), chosen_sl,
                                   amount2, note, next_due))
                  /\ purchases' = save_df([p EXCEPT ![idx].NextPaymentDue = next_due])
                  /\ msg' = "Payment saved."
       /\ UNCHANGED shipmentOps
       /\ UNCHANGED fnVars

\* what the Invoice No and BL No fields of the dispatch form show at first:
\* st.text_input(..., value=record.get("InvoiceNo", ""))
InvoiceDefault(chosen_sl) ==
    LET p == load_df(purchases)
    IN text_input_value(p[RowIndex(p, chosen_sl)].InvoiceNo)

BLDefault(chosen_sl) ==
    LET p == load_df(purchases)
    IN text_input_value(p[RowIndex(p, chosen_sl)].BLNo)

\* the dispatch form as submitted: both fields typed, or both left as shown
DispatchInputs(chosen_sl) ==
    (InvoiceChoices \X BLChoices)
        \cup {<<InvoiceDefault(chosen_sl), BLDefault(chosen_sl)>>}

\* the Reports page: st.dataframe(load_df(PURCHASES_FILE, PURCHASE_COLS))
ReportsPurchases == load_df(purchases)

\* the Due the Payment Update tab shows for chosen_sl
ReconciledDue(chosen_sl) ==
    LET p == recalc_balances(purchases, payments)
    IN p[RowIndex(p, chosen_sl)].Due

(***************************************************************************)
(* The application: every handler that writes purchases.csv or             *)
(* purchase_payments.csv.  The Amount field gives 0 or the whole Due, and  *)
(* both fields of the dispatch form are typed.                             *)
(***************************************************************************)
PayInFull(due) == {0, 10 * due}

Next ==
    \/ \E qty \in QtyChoices, unit_rate \in RateChoices, o \in PaymentOptions :
          AddPurchase(qty, unit_rate, o)
    \/ \E sl \in SlChoices(purchases), inv \in InvoiceChoices, bl \in BLChoices :
          SaveDispatch(sl, inv, bl)
    \/ \E sl \in SlChoices(purchases) : MarkDelivered(sl)
    \/ \E sl \in SlChoices(purchases), s \in StatusOptions : SaveStatus(sl, s)
    \/ \E sl \in SlChoices(purchases) :
       \E amount \in PayInFull(ReconciledDue(sl)), note \in NoteChoices,
          next_due \in FirstDate :
          RecordPayment(sl, amount, note, next_due)

Spec == Init /\ [][Next]_vars

(***************************************************************************)
(* The ledger alone: Add Purchase and Record Payment, with partial         *)
(* amounts and more than one next-due date.                                *)
(***************************************************************************)
AmountInputs(due) == {a \in AmountChoices \cup {10 * due} : a <= 10 * due}

NextLedger ==
    \/ \E qty \in QtyChoices, unit_rate \in RateChoices, o \in PaymentOptions :
          AddPurchase(qty, unit_rate, o)
    \/ \E sl \in SlChoices(purchases) :
       \E amount \in AmountInputs(ReconciledDue(sl)), note \in NoteChoices,
          next_due \in DateChoices :
          RecordPayment(sl, amount, note, next_due)

SpecLedger == Init /\ [][NextLedger]_vars

(***************************************************************************)
(* The shipment handlers: Add Purchase and the Shipment Update tab, with   *)
(* the dispatch form typed or left as shown.                               *)
(***************************************************************************)
NextShipment ==
    \/ \E qty \in QtyChoices, unit_rate \in RateChoices, o \in PaymentOptions :
          AddPurchase(qty, unit_rate, o)
    \/ \E sl \in SlChoices(purchases) :
       \E f \in DispatchInputs(sl) : SaveDispatch(sl, f[1], f[2])
    \/ \E sl \in SlChoices(purchases) : MarkDelivered(sl)
    \/ \E sl \in SlChoices(purchases), s \in StatusOptions : SaveStatus(sl, s)

SpecShipment == Init /\ [][NextShipment]_vars

(***************************************************************************)
(* recalc_balances as a function: called on a purchases table and a        *)
(* ledger drawn from the tables below, then called again on its own        *)
(* result with the same ledger.                                            *)
(***************************************************************************)
ArgSlNos == 1..MaxArgPurchases
ArgTotals == {NaN, 3}
ArgBalances == {<<0, 3>>, <<7, 9>>}        \* <<Paid, Due>> already in the row
ArgRefs == {1, 9}                          \* 9 is the SlNo of no purchase
ArgAmounts == {1, 4}

ArgPurchaseRows ==
    {[SlNo |-> sl, Total |-> t, ShipmentStatus |-> "Dispatched",
      InvoiceNo |-> "INV1", BLNo |-> "BL1", NextPaymentDue |-> 20,
      Paid |-> b[1], Due |-> b[2]] :
        sl \in ArgSlNos, t \in ArgTotals, b \in ArgBalances}

ArgPaymentRows(pid) ==
    {[PaymentID |-> pid, PurchaseSlNo |-> r, Amount |-> a,
      Note |-> "", NextPaymentDue |-> NoDate] : r \in ArgRefs, a \in ArgAmounts}

ArgPurchases ==
    UNION {{p \in [1..n -> ArgPurchaseRows] :
               \A i, j \in 1..n : i # j => p[i].SlNo # p[j].SlNo} :
           n \in 0..MaxArgPurchases}

ArgPayments ==
    UNION {{p \in [1..n -> ArgPaymentRows(1) \cup ArgPaymentRows(2) \cup ArgPaymentRows(3)] :
               \A i \in 1..n : p[i].PaymentID = i} :
           n \in 0..MaxArgPayments}

InitRecalc ==
    /\ purchases = <<>>
    /\ payments = <<>>
    /\ msg = "none"
    /\ shipmentOps = 0
    /\ purchases_df \in ArgPurchases
    /\ payments_df \in ArgPayments
    /\ ret = <<>>
    /\ ret2 = <<>>
    /\ calls = 0

CallRecalc ==
    /\ calls = 0
    /\ ret' = recalc_balances(purchases_df, payments_df)
    /\ purchases_df' = ArgAfterCall(purchases_df, payments_df)
    /\ calls' = 1
    /\ UNCHANGED <<payments_df, ret2>>
    /\ UNCHANGED appVars

CallRecalcAgain ==
    /\ calls = 1
    /\ ret2' = recalc_balances(ret, payments_df)
    /\ calls' = 2
    /\ UNCHANGED <<purchases_df, payments_df, ret>>
    /\ UNCHANGED appVars

NextRecalc == CallRecalc \/ CallRecalcAgain

SpecRecalc == InitRecalc /\ [][NextRecalc]_vars

(***************************************************************************)
(* Properties of recalc_balances (SpecRecalc).                             *)
(***************************************************************************)
\* the ledger rows that reference sl
Referencing(pay, sl) == {k \in 1..Len(pay) : pay[k].PurchaseSlNo = sl}

\* the sum of the amounts of the ledger rows whose index is in rows
RECURSIVE SumAmounts(_, _)
SumAmounts(pay, rows) ==
    IF rows = {} THEN 0
    ELSE LET k == CHOOSE x \in rows : TRUE
         IN pay[k].Amount + SumAmounts(pay, rows \ {k})

\* a row without its Paid and Due
WithoutBalance(row) == [f \in (DOMAIN row) \ {"Paid", "Due"} |-> row[f]]

\* a row without its Paid, Due and Total
WithoutBalanceAndTotal(row) ==
    [f \in (DOMAIN row) \ {"Paid", "Due", "Total"} |-> row[f]]

\* the table with every Paid and Due set to 0
ClearBalances(p_df) ==
    [i \in 1..Len(p_df) |-> [p_df[i] EXCEPT !.Paid = 0, !.Due = 0]]

\* C1: recalc_balances gives every purchase (with a numeric Total)
\* paid = the sum of the amounts of exactly the ledger rows that reference
\* its SlNo, 0 if there are none, and due = max(total - paid, 0); rows that
\* reference the SlNo of no purchase count for no purchase and the call still
\* returns one row per purchase; with an empty ledger paid = 0 and due = total.
C1_RecalcBalances ==
    calls >= 1 =>
        /\ Len(ret) = Len(purchases_df)
        /\ \A i \in 1..Len(purchases_df) :
              purchases_df[i].Total # NaN =>
                 LET paid == SumAmounts(payments_df,
                                Referencing(payments_df, purchases_df[i].SlNo))
                 IN /\ ret[i].Paid = paid
                    /\ ret[i].Due = Max(purchases_df[i].Total - paid, 0)
                    /\ Referencing(payments_df, purchases_df[i].SlNo) = {}
                          => ret[i].Paid = 0
                    /\ payments_df = <<>>
                          => ret[i].Paid = 0 /\ ret[i].Due = purchases_df[i].Total

\* C1 witness: a call on a table with two purchases, one of them referenced
\* by a ledger row and one by none, and a ledger row that references no
\* purchase of the table.
C1_Witness ==
    /\ calls >= 1
    /\ Len(purchases_df) = 2
    /\ \E i, j \in 1..Len(purchases_df) :
          /\ purchases_df[i].Total # NaN /\ ret[i].Paid > 0 /\ ret[i].Due > 0
          /\ purchases_df[j].Total # NaN /\ ret[j].Paid = 0
    /\ \E k \in 1..Len(payments_df) :
          \A i \in 1..Len(purchases_df) :
             payments_df[k].PurchaseSlNo # purchases_df[i].SlNo

\* C2: a second call on the result of the first, with the same ledger,
\* returns the same table, and the result of a call does not depend on the
\* Paid and Due the rows carried on input.
C2_Idempotent ==
    /\ calls = 2 => ret2 = ret
    /\ calls >= 1 =>
          ret = recalc_balances(ClearBalances(purchases_df), payments_df)

\* C2 witness: both calls made, on a table whose stored Paid and Due differ
\* from the reconciled ones, with a non-empty ledger that pays part of a total.
C2_Witness ==
    /\ calls = 2
    /\ payments_df # <<>>
    /\ \E i \in 1..Len(purchases_df) :
          /\ purchases_df[i].Paid # ret[i].Paid
          /\ purchases_df[i].Due # ret[i].Due
          /\ ret2[i].Paid > 0

\* C10 as stated: the call returns the same rows in the same order with
\* every field but Paid and Due as in the input (Total included), and leaves
\* both arguments as they were.
C10_AllButBalancePreserved ==
    [][(calls = 0 /\ calls' = 1) =>
          /\ purchases_df' = purchases_df
          /\ payments_df' = payments_df
          /\ Len(ret') = Len(purchases_df)
          /\ \A i \in 1..Len(purchases_df) :
                WithoutBalance(ret'[i]) = WithoutBalance(purchases_df[i])]_vars

\* C10 amended: the call returns the same rows in the same order with every
\* field but Paid, Due and Total as in the input; Total is as in the input
\* when it is numeric and 0 when it is absent or not numeric; both arguments
\* are left as they were.
C10_FramePreserved ==
    [][(calls = 0 /\ calls' = 1) =>
          /\ purchases_df' = purchases_df
          /\ payments_df' = payments_df
          /\ Len(ret') = Len(purchases_df)
          /\ \A i \in 1..Len(purchases_df) :
                /\ WithoutBalanceAndTotal(ret'[i])
                      = WithoutBalanceAndTotal(purchases_df[i])
                /\ ret'[i].Total = IF purchases_df[i].Total = NaN
                                   THEN 0 ELSE purchases_df[i].Total]_vars

\* C10 witness: a call made on two purchases, one with a numeric and one
\* with a non-numeric Total, whose Paid and Due the call changed.
C10_Witness ==
    /\ calls = 1
    /\ Len(purchases_df) = 2
    /\ \E i, j \in 1..2 :
          /\ purchases_df[i].Total = NaN /\ ret[i].Total = 0
          /\ purchases_df[j].Total = 3 /\ ret[j].Total = 3
          /\ ret[j].Paid # purchases_df[j].Paid
    /\ payments_df # <<>>

(***************************************************************************)
(* Properties of the application (Spec) and of the ledger (SpecLedger).    *)
(***************************************************************************)
\* the SlNo column of the purchases table, as a set
SlNos == {purchases[i].SlNo : i \in 1..Len(purchases)}

\* the largest element of a non-empty set of integers
MaxOf(S) == CHOOSE m \in S : \A n \in S : n <= m

\* the last row of a non-empty table
LastRow(df) == df[Len(df)]

\* C3: in every reachable state the reconciled balance of every purchase
\* has paid >= 0, 0 <= due <= total and due = max(total - paid, 0).
C3_BalanceInvariant ==
    LET p == recalc_balances(purchases, payments)
    IN \A i \in 1..Len(p) :
          /\ p[i].Paid >= 0
          /\ 0 <= p[i].Due
          /\ p[i].Due <= p[i].Total
          /\ p[i].Due = Max(p[i].Total - p[i].Paid, 0)

\* C3 witness: after a shipment button and a recorded payment, one purchase
\* is partly paid and another is fully paid.
C3_Witness ==
    LET p == recalc_balances(purchases, payments)
    IN /\ shipmentOps >= 1
       /\ \E k \in 1..Len(payments) : payments[k].Note # "Initial advance"
       /\ \E i, j \in 1..Len(p) :
             /\ p[i].Paid > 0 /\ p[i].Due > 0
             /\ p[j].Total > 0 /\ p[j].Due = 0

\* C6: every purchase row has SlNo 1 if it is the first row and one more
\* than the largest SlNo of the rows before it otherwise, so the SlNos are
\* pairwise distinct positive integers that increase in insertion order; this
\* holds in every state, so no payment or shipment action changes a SlNo.
C6_SlNoSequence ==
    /\ \A i \in 1..Len(purchases) :
          purchases[i].SlNo =
             IF i = 1 THEN 1
             ELSE MaxOf({purchases[j].SlNo : j \in 1..(i - 1)}) + 1
    /\ \A i \in 1..Len(purchases) : purchases[i].SlNo > 0
    /\ \A i, j \in 1..Len(purchases) :
          i < j => purchases[i].SlNo < purchases[j].SlNo

\* C6 witness: two purchases exist, and a payment was recorded and a
\* shipment status saved after the second was added.
C6_Witness ==
    /\ Len(purchases) = 2
    /\ shipmentOps >= 1
    /\ purchases[2].ShipmentStatus # "Yet to Dispatch"
    /\ \E k \in 1..Len(payments) :
          payments[k].Note # "Initial advance" /\ payments[k].PurchaseSlNo = 2

\* C8: in every reachable state every ledger row references exactly one row
\* of the purchases table.
C8_PaymentReferencesOnePurchase ==
    \A k \in 1..Len(payments) :
       Cardinality({i \in 1..Len(purchases) :
                       purchases[i].SlNo = payments[k].PurchaseSlNo}) = 1

\* C8 witness: the ledger holds an initial advance of the second purchase
\* and a recorded payment of the first.
C8_Witness ==
    /\ Len(purchases) = 2
    /\ \E k \in 1..Len(payments) :
          payments[k].Note = "Initial advance" /\ payments[k].PurchaseSlNo = 2
    /\ \E k \in 1..Len(payments) :
          payments[k].Note # "Initial advance" /\ payments[k].PurchaseSlNo = 1

\* C7: every ledger row has PaymentID 1 if it is the first row and one more
\* than the largest PaymentID of the rows before it otherwise, whether it is
\* an initial advance or a recorded payment, so the PaymentIDs are pairwise
\* distinct positive integers.
C7_PaymentIdSequence ==
    /\ \A k \in 1..Len(payments) :
          payments[k].PaymentID =
             IF k = 1 THEN 1
             ELSE MaxOf({payments[j].PaymentID : j \in 1..(k - 1)}) + 1
    /\ \A k \in 1..Len(payments) : payments[k].PaymentID > 0
    /\ \A k, j \in 1..Len(payments) :
          k # j => payments[k].PaymentID # payments[j].PaymentID

\* C7 witness: a recorded payment lies between two initial advances in the
\* ledger.
C7_Witness ==
    /\ Len(payments) = 3
    /\ payments[1].Note = "Initial advance"
    /\ payments[2].Note # "Initial advance"
    /\ payments[3].Note = "Initial advance"

\* the values the Record Payment form can be submitted with in a state
\* (any purchase, an amount of AmountChoices, a whole reconciled due or one
\* cent more than it)
PaymentSubmissions ==
    LET p == recalc_balances(purchases, payments)
        dues == {p[i].Due : i \in 1..Len(p)}
    IN {<<sl, amount, note, next_due>> :
           sl \in SlNos,
           amount \in AmountChoices \cup {10 * d : d \in dues}
                                    \cup {10 * d + 10 : d \in dues},
           note \in NoteChoices, next_due \in DateChoices}

\* C4: a Record Payment submission appends a ledger row only when
\* 0 < amount <= the purchase's reconciled due, and the row then holds that
\* amount rounded to cents, never more than the due; a submission with
\* amount <= 0 is rejected and leaves the ledger and the purchases table
\* (NextPaymentDue included) as they were; no submission with amount > due
\* is ever handled.
C4_PaymentValidation ==
    [][\A f \in PaymentSubmissions :
          RecordPayment(f[1], f[2], f[3], f[4]) =>
             \/ /\ 0 < f[2]
                /\ f[2] <= 10 * ReconciledDue(f[1])
                /\ msg' = "Payment saved."
                /\ Len(payments') = Len(payments) + 1
                /\ LastRow(payments').PurchaseSlNo = f[1]
                /\ LastRow(payments').Amount \in RoundSet(f[2], 10)
                /\ LastRow(payments').Amount <= ReconciledDue(f[1])
             \/ /\ f[2] <= 0
                /\ msg' = "Enter valid amount."
                /\ payments' = payments
                /\ purchases' = purchases]_vars

\* C4 witness: a submission with amount 0 was just rejected, on tables that
\* hold a purchase with a next-due date and a recorded payment.
C4_Witness ==
    /\ msg = "Enter valid amount."
    /\ \E i \in 1..Len(purchases) : purchases[i].NextPaymentDue # NoDate
    /\ \E k \in 1..Len(payments) : payments[k].Note # "Initial advance"

\* the values the Add Purchase form can be submitted with
PurchaseSubmissions ==
    {<<qty, unit_rate, o>> :
        qty \in QtyChoices, unit_rate \in RateChoices, o \in PaymentOptions}

\* C5 as stated: Add Purchase with total T and advance option p saves the
\* row with paid 0 and due T and, when T*p > 0, appends exactly one payment
\* of amount T*p with note "Initial advance" for the new SlNo, and none when
\* T*p = 0.  (T in cents, p in percent: T*p > 0 iff T * Percent > 0, and the
\* amount in cents is T*p iff 100 * Amount = T * Percent.)
C5_AdvanceIsExactFraction ==
    [][\A f \in PurchaseSubmissions :
          AddPurchase(f[1], f[2], f[3]) =>
             LET row == LastRow(purchases')
                 T == row.Total
             IN /\ row.Paid = 0 /\ row.Due = T
                /\ T * Percent(f[3]) > 0 =>
                      /\ Len(payments') = Len(payments) + 1
                      /\ LastRow(payments').PurchaseSlNo = row.SlNo
                      /\ LastRow(payments').Note = "Initial advance"
                      /\ 100 * LastRow(payments').Amount = T * Percent(f[3])
                /\ T * Percent(f[3]) = 0 => payments' = payments]_vars

\* the reconciled row of the purchase sl in the next state
ReconciledRowNext(sl) ==
    LET p == recalc_balances(purchases', payments')
    IN p[RowIndex(p, sl)]

\* C5 amended: Add Purchase with total T and advance option p saves the row
\* with paid 0 and due T and, with A = round(T*p, 2), appends exactly one
\* payment of amount A with note "Initial advance" for the new SlNo when
\* A > 0 and none when A = 0; reconciliation then gives paid = A and
\* due = T - A; an accepted recorded payment equal to the whole remaining due
\* gives paid = T and due = 0; and no payment can be recorded for a purchase
\* whose reconciled due is 0.
C5_AdvanceAndSettlement ==
    /\ [][\A f \in PurchaseSubmissions :
             AddPurchase(f[1], f[2], f[3]) =>
                LET row == LastRow(purchases')
                    T == row.Total
                IN /\ row.Paid = 0 /\ row.Due = T
                   /\ \E A \in RoundSet(T * Percent(f[3]), 100) :
                         /\ A > 0 =>
                               /\ Len(payments') = Len(payments) + 1
                               /\ SubSeq(payments', 1, Len(payments)) = payments
                               /\ LastRow(payments').PurchaseSlNo = row.SlNo
                               /\ LastRow(payments').Note = "Initial advance"
                               /\ LastRow(payments').Amount = A
                         /\ A = 0 => payments' = payments
                         /\ ReconciledRowNext(row.SlNo).Paid = A
                         /\ ReconciledRowNext(row.SlNo).Due = T - A]_vars
    /\ [][\A f \in PaymentSubmissions :
             RecordPayment(f[1], f[2], f[3], f[4]) =>
                /\ ReconciledDue(f[1]) > 0
                /\ f[2] = 10 * ReconciledDue(f[1]) =>
                      /\ ReconciledRowNext(f[1]).Paid
                            = ReconciledRowNext(f[1]).Total
                      /\ ReconciledRowNext(f[1]).Due = 0]_vars

\* C5 witness: a purchase of total 0.03 whose ledger rows are its initial
\* advance of 0.01 and a recorded payment of the remaining 0.02, just saved.
C5_Witness ==
    /\ msg = "Payment saved."
    /\ \E i \in 1..Len(purchases) :
          /\ purchases[i].Total = 3
          /\ ReconciledDue(purchases[i].SlNo) = 0
          /\ \E k, l \in 1..Len(payments) :
                /\ k < l
                /\ Referencing(payments, purchases[i].SlNo) = {k, l}
                /\ payments[k].Note = "Initial advance" /\ payments[k].Amount = 1
                /\ payments[l].Note # "Initial advance" /\ payments[l].Amount = 2

\* C9: an accepted Record Payment with next-due date d for purchase s
\* leaves the stored NextPaymentDue of s equal to d and that of every other
\* purchase as it was; Add Purchase writes the initial advance without a
\* next-due date, leaves the new purchase's NextPaymentDue unset and that of
\* every other purchase as it was.
C9_NextPaymentDueFrame ==
    /\ [][\A f \in PaymentSubmissions :
             (RecordPayment(f[1], f[2], f[3], f[4]) /\ f[2] > 0) =>
                /\ Len(purchases') = Len(purchases)
                /\ \A i \in 1..Len(purchases) :
                      purchases'[i].NextPaymentDue =
                         IF purchases[i].SlNo = f[1] THEN f[4]
                         ELSE purchases[i].NextPaymentDue
                /\ LastRow(payments').NextPaymentDue = f[4]]_vars
    /\ [][\A f \in PurchaseSubmissions :
             AddPurchase(f[1], f[2], f[3]) =>
                /\ LastRow(purchases').NextPaymentDue = NoDate
                /\ \A i \in 1..Len(purchases) :
                      purchases'[i].NextPaymentDue = purchases[i].NextPaymentDue
                /\ Len(payments') > Len(payments) =>
                      LastRow(payments').NextPaymentDue = NoDate]_vars

\* C9 witness: a payment with a next-due date was just recorded for one of
\* two purchases whose stored NextPaymentDue now differ, the other purchase
\* having an initial advance and no date.
C9_Witness ==
    /\ msg = "Payment saved."
    /\ Len(purchases) = 2
    /\ \E i, j \in 1..2 :
          /\ purchases[i].NextPaymentDue = LastRow(payments).NextPaymentDue
          /\ purchases[i].SlNo = LastRow(payments).PurchaseSlNo
          /\ purchases[i].NextPaymentDue \in DateChoices
          /\ purchases[j].NextPaymentDue = NoDate
          /\ \E k \in 1..Len(payments) :
                /\ payments[k].PurchaseSlNo = purchases[j].SlNo
                /\ payments[k].Note = "Initial advance"

(***************************************************************************)
(* Claims about the shipment handlers (Spec).                              *)
(***************************************************************************)
\* C11: in every reachable state a purchase whose ShipmentStatus is
\* Dispatched has a non-empty InvoiceNo and a non-empty BLNo in the
\* purchases table.
C11_DispatchedHasInvoiceAndBL ==
    \A i \in 1..Len(purchases) :
        purchases[i].ShipmentStatus = "Dispatched"
            => purchases[i].InvoiceNo # "" /\ purchases[i].BLNo # ""

(***************************************************************************)
(* Claims about the urgency flag (SpecLedger).                             *)
(***************************************************************************)
\* the purchases table as every page reconciles it
Reconciled == recalc_balances(load_df(purchases), payments)

\* C12: on every day, every reconciled purchase gets one flag of
\* {Paid, Due, DueSoon, Overdue}: Paid when Due <= 0 whatever the date;
\* otherwise Due when no next-payment-due date is set, Overdue when the date
\* is before today, DueSoon when it is today up to today + 7, and Due when it
\* is 8 or more days ahead.
C12_ClassifyUrgency ==
    \A today \in TodayChoices :
    \A i \in 1..Len(Reconciled) :
        LET r == Reconciled[i]
            d == r.NextPaymentDue
            flag == classify_urgency(r, today)
        IN /\ flag \in UrgencyFlags
           /\ r.Due <= 0 => flag = "Paid"
           /\ r.Due > 0 /\ d = NoDate => flag = "Due"
           /\ r.Due > 0 /\ d # NoDate /\ d < today => flag = "Overdue"
           /\ r.Due > 0 /\ d # NoDate /\ today <= d /\ d <= today + 7
                 => flag = "DueSoon"
           /\ r.Due > 0 /\ d # NoDate /\ d >= today + 8 => flag = "Due"

\* C12 witness: one purchase still owing with a next-due date that is
\* yesterday, today, 7 days ahead and 8 days ahead on the days tried, and
\* one purchase paid off that carries a next-due date.
C12_Witness ==
    \E i, j \in 1..Len(Reconciled) :
        /\ Reconciled[i].Due > 0
        /\ Reconciled[i].NextPaymentDue = 20
        /\ classify_urgency(Reconciled[i], 21) = "Overdue"
        /\ classify_urgency(Reconciled[i], 20) = "DueSoon"
        /\ classify_urgency(Reconciled[i], 13) = "DueSoon"
        /\ classify_urgency(Reconciled[i], 12) = "Due"
        /\ Reconciled[j].Due = 0
        /\ Reconciled[j].Total > 0
        /\ Reconciled[j].NextPaymentDue = 20
        /\ classify_urgency(Reconciled[j], 21) = "Paid"

(***************************************************************************)
(* Claims about overpayment and the stored balances (SpecLedger).          *)
(***************************************************************************)
\* C13: in every state reached by Add Purchase and Record Payment the
\* ledger amounts that reference a purchase sum to at most its Total, and
\* its reconciled Paid and Due add up to its Total (the clamp at 0 never
\* acts).
C13_NoOverpayment ==
    \A i \in 1..Len(Reconciled) :
        LET r == Reconciled[i]
            paid == SumAmounts(payments, Referencing(payments, r.SlNo))
        IN /\ paid <= r.Total
           /\ r.Paid = paid
           /\ r.Paid + r.Due = r.Total

\* C13 witness: a purchase of total 0.03 saved without an advance and paid
\* off by two recorded payments, 0.02 and then the remaining 0.01.
C13_Witness ==
    \E i \in 1..Len(Reconciled) :
    \E k, l \in 1..Len(payments) :
        /\ k < l
        /\ Reconciled[i].Total = 3
        /\ Reconciled[i].Due = 0
        /\ Referencing(payments, Reconciled[i].SlNo) = {k, l}
        /\ payments[k].Note # "Initial advance" /\ payments[k].Amount = 2
        /\ payments[l].Note # "Initial advance" /\ payments[l].Amount = 1

\* C14: in every reachable state (after every completed Add Purchase, Record
\* Payment or shipment action) the Paid and Due stored in the purchases
\* table, which the Reports page shows and exports, equal the Paid and Due
\* that recalc_balances computes from the stored ledger.
C14_StoredBalancesReconciled ==
    \A i \in 1..Len(ReportsPurchases) :
        /\ ReportsPurchases[i].Paid = Reconciled[i].Paid
        /\ ReportsPurchases[i].Due = Reconciled[i].Due

====
